---- MODULE Spec2Model ----
(***************************************************************************)
(* cut-off-tiles: a model of the missing-tile detector, the pixel run       *)
(* scanner and the batch scan of the repository.                           *)
(*                                                                         *)
(*   SpecMissing  detect_missing_tiles   (src/missing_detector.py)         *)
(*   SpecPixels   check_consecutive_pixels (src/pixel_detector.py)         *)
(*   SpecScan     scan_directory         (src/pixel_detector.py)           *)
(*                                                                         *)
(* The three programs share no state; each specification starts the        *)
(* variables of the other two in their idle values and never changes them. *)
(***************************************************************************)
EXTENDS Integers, Sequences, FiniteSets, TLC

VARIABLES
    \* ---- detect_missing_tiles
    pc,               \* "walk" (lines 37-59), "detect" (70-109), "done", or "idle"
    zoom_level,       \* argument: None or one zoom
    min_neighbors,    \* argument
    boundary_padding, \* argument
    existing_tiles,   \* defaultdict(set): zoom -> set of <<x, y>>
    tile_keys,        \* the insertion order of the keys of existing_tiles
    min_x, max_x, min_y, max_y,   \* defaultdicts: zoom -> bound
    missing_tiles,    \* list of tile_info records
    zi,               \* position of "for z in existing_tiles" in tile_keys
    seen_triple,      \* history: some walked file yielded a coordinate triple
    \* ---- check_consecutive_pixels
    ppc,              \* "scan" (lines 24-63), "returned", or "idle"
    image,            \* [ok |-> can Image.open decode it, px |-> rows of pixels]
    colors,           \* argument: the list of target colors
    ci,               \* position of "for color in colors"
    result,           \* dict: color name -> max_consecutive
    scan_out,         \* the dict returned, or NotReturned
    \* ---- scan_directory
    spc,              \* "collect" (151-155), "pool" (167-188), "review" (194-219), "done", "idle"
    directory,        \* file -> [png |-> name ends in .png, img |-> its content]
    threshold,        \* argument
    auto_delete,      \* argument
    all_files,        \* the PNG paths collected
    pending,          \* files whose result imap_unordered has not yielded yet
    completed,        \* counter of the results yielded
    yielded,          \* history: the results the pool yielded
    results,          \* list of the results that met the detection condition
    ri,               \* position of "for result in results"
    detected_images,  \* returned under "detected"
    deleted_images,   \* returned under "deleted"
    fs,               \* the files present on disk
    last_review       \* history: what the latest review step did

missVars == <<pc, zoom_level, min_neighbors, boundary_padding, existing_tiles,
              tile_keys, min_x, max_x, min_y, max_y, missing_tiles, zi,
              seen_triple>>

pixVars == <<ppc, image, colors, ci, result, scan_out>>

scanVars == <<spc, directory, threshold, auto_delete, all_files, pending, completed,
              yielded, results, ri, detected_images, deleted_images, fs, last_review>>

vars == <<missVars, pixVars, scanVars>>

(***************************************************************************)
(* The idle values of each program's variables.                            *)
(***************************************************************************)
IdleMissing ==
    /\ pc = "idle"
    /\ zoom_level = -1 /\ min_neighbors = 0 /\ boundary_padding = 0
    /\ existing_tiles = << >> /\ tile_keys = << >>
    /\ min_x = << >> /\ max_x = << >> /\ min_y = << >> /\ max_y = << >>
    /\ missing_tiles = << >> /\ zi = 1 /\ seen_triple = FALSE

IdlePixels ==
    /\ ppc = "idle"
    /\ image = [ok |-> FALSE, px |-> << >>]
    /\ colors = << >> /\ ci = 1 /\ result = << >>
    /\ scan_out = [status |-> "none"]

IdleScan ==
    /\ spc = "idle"
    /\ directory = << >> /\ threshold = 0 /\ auto_delete = FALSE
    /\ all_files = {} /\ pending = {} /\ completed = 0 /\ yielded = {}
    /\ results = << >> /\ ri = 1
    /\ detected_images = << >> /\ deleted_images = << >>
    /\ fs = {} /\ last_review = [file |-> -1]

(***************************************************************************)
(* Bounds and input domains of detect_missing_tiles.                       *)
(***************************************************************************)
\* At most this many distinct tiles are indexed in one run.
MaxTiles == 11

\* zoom_level=None (no zoom filter); a zoom parsed by (\d+) is never negative.
None == -1

\* The zoom levels that occur under the root.
Zooms == {3, 12}

\* The (x, y) coordinates that occur at each zoom level.
CoordsAt(z) == IF z = 3 THEN (0..2) \X (0..2) ELSE (0..1) \X (0..1)

\* The values tried for the arguments.
ZoomFilters == {None} \cup Zooms
MinNeighborsValues == {-1, 3, 6, 9}
PaddingValues == {-1, 0, 1}

\* Directory entries: a PNG whose path yields <<z, x, y>>, a PNG whose path
\* does not match the pattern, and a file that is not a PNG.
TileFiles == {[kind |-> "tile", z |-> z, x |-> c[1], y |-> c[2]] :
                 z \in Zooms, c \in (0..2) \X (0..2)}
DirEntries == {f \in TileFiles : <<f.x, f.y>> \in CoordsAt(f.z)}
                 \cup {[kind |-> "nomatch"], [kind |-> "notpng"]}

Min(a, b) == IF a <= b THEN a ELSE b
Max(a, b) == IF a >= b THEN a ELSE b

\* The set of elements of a sequence.
Range(s) == {s[i] : i \in DOMAIN s}

\* dict lookup and update with the dynamic key set of a defaultdict.
HasKey(d, k) == k \in DOMAIN d
Put(d, k, v) == [j \in (DOMAIN d) \cup {k} |-> IF j = k THEN v ELSE d[j]]
EmptyDict == [j \in {} |-> 0]

NumTiles == Cardinality(UNION {{<<z, c>> : c \in existing_tiles[z]} : z \in DOMAIN existing_tiles})

(***************************************************************************)
(* detect_missing_tiles, the walk: one directory entry (lines 38-59).      *)
(***************************************************************************)
AddTile(z, x, y) ==
    /\ existing_tiles' = Put(existing_tiles, z,
                             (IF HasKey(existing_tiles, z) THEN existing_tiles[z] ELSE {})
                                \cup {<<x, y>>})
    /\ tile_keys' = IF HasKey(existing_tiles, z) THEN tile_keys ELSE Append(tile_keys, z)
    /\ min_x' = Put(min_x, z, IF HasKey(min_x, z) THEN Min(min_x[z], x) ELSE x)
    /\ max_x' = Put(max_x, z, IF HasKey(max_x, z) THEN Max(max_x[z], x) ELSE x)
    /\ min_y' = Put(min_y, z, IF HasKey(min_y, z) THEN Min(min_y[z], y) ELSE y)
    /\ max_y' = Put(max_y, z, IF HasKey(max_y, z) THEN Max(max_y[z], y) ELSE y)

WalkFile(f) ==
    /\ pc = "walk"
    /\ IF f.kind = "tile"
         THEN /\ seen_triple' = TRUE
              /\ IF zoom_level # None /\ f.z # zoom_level
                   THEN UNCHANGED <<existing_tiles, tile_keys, min_x, max_x, min_y, max_y>>
                   ELSE /\ \/ HasKey(existing_tiles, f.z) /\ <<f.x, f.y>> \in existing_tiles[f.z]
                           \/ NumTiles < MaxTiles
                        /\ AddTile(f.z, f.x, f.y)
         ELSE UNCHANGED <<seen_triple, existing_tiles, tile_keys, min_x, max_x, min_y, max_y>>
    /\ UNCHANGED <<pc, zoom_level, min_neighbors, boundary_padding, missing_tiles, zi>>
    /\ UNCHANGED <<pixVars, scanVars>>

Walk == \E f \in DirEntries : WalkFile(f)

(***************************************************************************)
(* The end of the walk (lines 61-66).                                      *)
(***************************************************************************)
EndWalk ==
    /\ pc = "walk"
    /\ pc' = IF DOMAIN existing_tiles = {} THEN "done" ELSE "detect"
    /\ missing_tiles' = << >>
    /\ zi' = 1
    /\ UNCHANGED <<zoom_level, min_neighbors, boundary_padding, existing_tiles,
                   tile_keys, min_x, max_x, min_y, max_y, seen_triple>>
    /\ UNCHANGED <<pixVars, scanVars>>

(***************************************************************************)
(* One zoom level of the detection loop (lines 70-109).                    *)
(***************************************************************************)
\* range(a, b) as the sequence a, a+1, ..., b-1.
PyRange(a, b) == [k \in 1..(IF b > a THEN b - a ELSE 0) |-> a + k - 1]

\* The 8 neighbours, lines 86-91.
Neighbors(x, y) == {<<x-1, y>>, <<x+1, y>>, <<x, y-1>>, <<x, y+1>>,
                    <<x-1, y-1>>, <<x-1, y+1>>, <<x+1, y-1>>, <<x+1, y+1>>}

\* Line 94.
ExistingNeighbors(z, x, y) == Cardinality(Neighbors(x, y) \cap existing_tiles[z])

\* Mutant of Flagged: the comparison is off by one.
FlaggedOffByOne(n) == n >= min_neighbors - 1

\* Line 97.
Flagged(n) == n >= min_neighbors

\* "for x in x_range: for y in y_range:" as the sequence of cells visited.
CellsVisited(x_range, y_range) ==
    [k \in 1..(Len(x_range) * Len(y_range)) |->
        <<x_range[((k - 1) \div Len(y_range)) + 1], y_range[((k - 1) % Len(y_range)) + 1]>>]

TileInfo(z, x, y) ==
    [z |-> z, x |-> x, y |-> y, neighbors |-> ExistingNeighbors(z, x, y),
     expected_filename |-> <<z, x, y>>]

IsMissing(z, c) ==
    /\ c \notin existing_tiles[z]
    /\ Flagged(ExistingNeighbors(z, c[1], c[2]))

\* Mutant of XRange: the end of the range forgets the "+ 1".
XRangeExclusive(z) == PyRange(min_x[z] + boundary_padding, max_x[z] - boundary_padding)

XRange(z) == PyRange(min_x[z] + boundary_padding, max_x[z] - boundary_padding + 1)
YRange(z) == PyRange(min_y[z] + boundary_padding, max_y[z] - boundary_padding + 1)

ZoomRecords(z) ==
    LET cells == CellsVisited(XRange(z), YRange(z))
        hits  == SelectSeq(cells, LAMBDA c : IsMissing(z, c))
    IN  [k \in 1..Len(hits) |-> TileInfo(z, hits[k][1], hits[k][2])]

ProcessZoom ==
    /\ pc = "detect"
    /\ zi <= Len(tile_keys)
    /\ missing_tiles' = missing_tiles \o ZoomRecords(tile_keys[zi])
    /\ zi' = zi + 1
    /\ UNCHANGED <<pc, zoom_level, min_neighbors, boundary_padding, existing_tiles,
                   tile_keys, min_x, max_x, min_y, max_y, seen_triple>>
    /\ UNCHANGED <<pixVars, scanVars>>

\* Lines 111-112.
Return ==
    /\ pc = "detect"
    /\ zi > Len(tile_keys)
    /\ pc' = "done"
    /\ UNCHANGED <<zoom_level, min_neighbors, boundary_padding, existing_tiles,
                   tile_keys, min_x, max_x, min_y, max_y, missing_tiles, zi, seen_triple>>
    /\ UNCHANGED <<pixVars, scanVars>>

InitMissing ==
    /\ IdlePixels /\ IdleScan
    /\ pc = "walk"
    /\ zoom_level \in ZoomFilters
    /\ min_neighbors \in MinNeighborsValues
    /\ boundary_padding \in PaddingValues
    /\ existing_tiles = EmptyDict
    /\ tile_keys = << >>
    /\ min_x = EmptyDict /\ max_x = EmptyDict /\ min_y = EmptyDict /\ max_y = EmptyDict
    /\ missing_tiles = << >>
    /\ zi = 1
    /\ seen_triple = FALSE

NextMissing == Walk \/ EndWalk \/ ProcessZoom \/ Return

SpecMissing == InitMissing /\ [][NextMissing]_vars

(***************************************************************************)
(* Properties of detect_missing_tiles.                                     *)
(***************************************************************************)
\* The records of zoom level z, as coordinates, in the order emitted.
RecordsAt(z) == SelectSeq(missing_tiles, LAMBDA r : r.z = z)
CoordsOfRecords(z) == {<<r.x, r.y>> : r \in Range(RecordsAt(z))}

\* The bounding box of the coordinates indexed at z, from the index itself.
LeastX(z) == CHOOSE v \in {c[1] : c \in existing_tiles[z]} :
                \A c \in existing_tiles[z] : v <= c[1]
MostX(z)  == CHOOSE v \in {c[1] : c \in existing_tiles[z]} :
                \A c \in existing_tiles[z] : v >= c[1]
LeastY(z) == CHOOSE v \in {c[2] : c \in existing_tiles[z]} :
                \A c \in existing_tiles[z] : v <= c[2]
MostY(z)  == CHOOSE v \in {c[2] : c \in existing_tiles[z]} :
                \A c \in existing_tiles[z] : v >= c[2]

Interior(z) == ((LeastX(z) + boundary_padding)..(MostX(z) - boundary_padding))
                  \X ((LeastY(z) + boundary_padding)..(MostY(z) - boundary_padding))

PresentAround(z, c) ==
    Cardinality({d \in existing_tiles[z] :
                    /\ d # c
                    /\ d[1] - c[1] \in -1..1
                    /\ d[2] - c[2] \in -1..1})

ExpectedGaps(z) == {c \in Interior(z) :
                       c \notin existing_tiles[z] /\ PresentAround(z, c) >= min_neighbors}

\* <<z, x, y>> of record i precedes that of record j.
Precedes(r, s) ==
    \/ r.z < s.z
    \/ r.z = s.z /\ r.x < s.x
    \/ r.z = s.z /\ r.x = s.x /\ r.y < s.y

C3_RecordsAreExactlyTheGaps ==
    pc = "done" =>
        /\ \A z \in DOMAIN existing_tiles :
              /\ CoordsOfRecords(z) = ExpectedGaps(z)
              /\ Len(RecordsAt(z)) = Cardinality(ExpectedGaps(z))
              /\ CoordsOfRecords(z) \cap existing_tiles[z] = {}
        /\ \A r \in Range(missing_tiles) : r.z \in DOMAIN existing_tiles

\* C3 witness: padding 1 leaves the single interior cell (1, 1) of a full
\* ring at zoom 3, which is emitted with 8 neighbours, and leaves nothing at
\* zoom 12, where the gap (1, 1) has 3 neighbours but no record.
C3_Witness ==
    /\ pc = "done"
    /\ boundary_padding = 1
    /\ min_neighbors = 3
    /\ DOMAIN existing_tiles = {3, 12}
    /\ existing_tiles[3] = ((0..2) \X (0..2)) \ {<<1, 1>>}
    /\ existing_tiles[12] = {<<0, 0>>, <<0, 1>>, <<1, 0>>}
    /\ Len(missing_tiles) = 1
    /\ missing_tiles[1].z = 3 /\ missing_tiles[1].x = 1 /\ missing_tiles[1].y = 1
    /\ missing_tiles[1].neighbors = 8

\* C4: every record carries a neighbour count n with min_neighbors <= n <= 8.
C4_NeighborCountInRange ==
    \A r \in Range(missing_tiles) :
        min_neighbors <= r.neighbors /\ r.neighbors <= 8

\* C4 witness: with min_neighbors below 0 a gap without any neighbour is
\* emitted with count 0, next to a gap emitted with a positive count.
C4_Witness ==
    /\ pc = "done"
    /\ min_neighbors = -1
    /\ \E r \in Range(missing_tiles) : r.neighbors = 0
    /\ \E r \in Range(missing_tiles) : r.neighbors > 0

\* C8: the empty-index outcome (no records, empty index) is returned only
\* when no file under the root yielded a coordinate triple.
C8_EmptyIndexOnlyWithoutTriples ==
    (pc = "done" /\ DOMAIN existing_tiles = {}) => ~seen_triple

(***************************************************************************)
(* check_consecutive_pixels (src/pixel_detector.py, lines 12-76).          *)
(***************************************************************************)
\* Images of 1..MaxH rows and 1..MaxW columns are enumerated.
MaxH == 2
MaxW == 2

\* The side of the all-white and the checkerboard example images.
ExampleSize == 10

White == <<255, 255, 255>>
Black == <<0, 0, 0>>
Red   == <<255, 0, 0>>
PixelValues == {White, Black, Red}

DefaultColors == <<White, Black>>
ColorLists == {DefaultColors, <<Red, Black>>}

NotReturned == [status |-> "none"]

Decoded(px) == [ok |-> TRUE, px |-> px]
Corrupt == [ok |-> FALSE, px |-> << >>]

AllWhiteExample == Decoded([r \in 1..ExampleSize |-> [c \in 1..ExampleSize |-> White]])
CheckerboardExample ==
    Decoded([r \in 1..ExampleSize |->
                [c \in 1..ExampleSize |-> IF (r + c) % 2 = 0 THEN White ELSE Black]])

\* An RGBA image: opaque and transparent white and black pixels.
AlphaExample ==
    Decoded(<<<<<<255, 255, 255, 255>>, <<255, 255, 255, 0>>>>,
              <<<<0, 0, 0, 255>>, <<255, 255, 255, 0>>>>>>)

SmallImages == UNION {{Decoded(px) : px \in [1..h -> [1..w -> PixelValues]]} :
                         h \in 1..MaxH, w \in 1..MaxW}

Images == SmallImages \cup {AllWhiteExample, CheckerboardExample, AlphaExample, Corrupt}

\* img_array[:, :, :3]: the first three channels of every pixel (lines 31-32).
Rgb(px) == [r \in DOMAIN px |-> [c \in DOMAIN px[r] |-> SubSeq(px[r][c], 1, 3)]]

\* np.array_equal(pixel, color_array), lines 45 and 56.
ArrayEqual(pixel, color) == pixel = color

\* One scan line, lines 43-49 (and 53-60): consecutive_count after each
\* pixel. It starts at 0, grows by one on a match and falls back to 0 on a
\* mismatch.
ConsecutiveCount(line, color) ==
    LET cnt[i \in 0..Len(line)] ==
            IF i = 0 THEN 0
            ELSE IF ArrayEqual(line[i], color) THEN cnt[i - 1] + 1 ELSE 0
    IN  cnt

MaxOf(S) == CHOOSE n \in S : \A m \in S : m <= n

\* The loop over the rows (line 42) or the columns (line 52): max_consecutive
\* is raised to every value consecutive_count takes (lines 47 and 58).
ScanLines(lines, max_consecutive, color) ==
    MaxOf({max_consecutive} \cup
          {ConsecutiveCount(lines[k], color)[i] : k \in DOMAIN lines, i \in 1..Len(lines[1])})

\* Column col_idx read top to bottom (lines 52-55).
Columns(arr) == [c \in 1..Len(arr[1]) |-> [r \in 1..Len(arr) |-> arr[r][c]]]

\* Mutant of MaxConsecutive: the column scan is left out.
MaxConsecutiveRowsOnly(arr, color) == ScanLines(arr, 0, color)

\* Lines 39-60: rows first, then columns, into the same max_consecutive.
MaxConsecutive(arr, color) ==
    ScanLines(Columns(arr), ScanLines(arr, 0, color), color)

\* Line 62.
ColorName(color) ==
    IF color = White THEN "white"
    ELSE IF color = Black THEN "black"
    ELSE "(255, 0, 0)"

\* One iteration of "for color in colors" (lines 37-63).
ScanColor ==
    /\ ppc = "scan"
    /\ image.ok
    /\ ci <= Len(colors)
    /\ result' = Put(result, ColorName(colors[ci]), MaxConsecutive(Rgb(image.px), colors[ci]))
    /\ ci' = ci + 1
    /\ UNCHANGED <<ppc, image, colors, scan_out>>
    /\ UNCHANGED <<missVars, scanVars>>

\* Lines 65-69.
ReturnSuccess ==
    /\ ppc = "scan"
    /\ image.ok
    /\ ci > Len(colors)
    /\ scan_out' = [status |-> "success", result |-> result]
    /\ ppc' = "returned"
    /\ UNCHANGED <<image, colors, ci, result>>
    /\ UNCHANGED <<missVars, scanVars>>

\* Lines 71-76: Image.open raised.
ReturnError ==
    /\ ppc = "scan"
    /\ ~image.ok
    /\ scan_out' = [status |-> "error"]
    /\ ppc' = "returned"
    /\ UNCHANGED <<image, colors, ci, result>>
    /\ UNCHANGED <<missVars, scanVars>>

InitPixels ==
    /\ IdleMissing /\ IdleScan
    /\ ppc = "scan"
    /\ image \in Images
    /\ colors \in ColorLists
    /\ ci = 1
    /\ result = EmptyDict
    /\ scan_out = NotReturned

NextPixels == ScanColor \/ ReturnSuccess \/ ReturnError

SpecPixels == InitPixels /\ [][NextPixels]_vars

(***************************************************************************)
(* Properties of check_consecutive_pixels.                                 *)
(***************************************************************************)
\* The pixels i..j of a line all match the color: their red, green and blue
\* channels equal those of the color.
AllMatch(line, i, j, color) ==
    \A k \in i..j : \A ch \in 1..3 : line[k][ch] = color[ch]

\* The longest run of consecutive matching pixels in one line; 0 if none.
LongestRun(line, color) ==
    LET lens == {j - i + 1 : <<i, j>> \in
                    {w \in (1..Len(line)) \X (1..Len(line)) :
                        w[1] <= w[2] /\ AllMatch(line, w[1], w[2], color)}}
    IN  IF lens = {} THEN 0 ELSE CHOOSE n \in lens : \A m \in lens : m <= n

BestOf(lines, color) ==
    LET runs == {LongestRun(lines[k], color) : k \in DOMAIN lines}
    IN  CHOOSE n \in runs : \A m \in runs : m <= n

RowLines(px) == px
ColLines(px) == [c \in 1..Len(px[1]) |-> [r \in 1..Len(px) |-> px[r][c]]]

\* C6: for every decoded image and every target color, the figure reported
\* is the larger of the longest run inside a single row and the longest run
\* inside a single column, 0 when no pixel matches; the all-white example
\* gives white ExampleSize and black 0, the checkerboard gives 1 and 1; the
\* alpha channel of a pixel plays no part.
C6_FigureIsMaxRowColumnRun ==
    scan_out.status = "success" =>
        /\ \A k \in 1..Len(colors) :
              scan_out.result[ColorName(colors[k])] =
                 Max(BestOf(RowLines(image.px), colors[k]),
                     BestOf(ColLines(image.px), colors[k]))
        /\ (image = AllWhiteExample /\ colors = DefaultColors) =>
              scan_out.result = [n \in {"white", "black"} |->
                                    IF n = "white" THEN ExampleSize ELSE 0]
        /\ (image = CheckerboardExample /\ colors = DefaultColors) =>
              scan_out.result = [n \in {"white", "black"} |-> 1]
        /\ (image = AlphaExample /\ colors = DefaultColors) =>
              scan_out.result = [n \in {"white", "black"} |->
                                    IF n = "white" THEN 2 ELSE 1]

\* C6 witness: a returned scan of an image whose white pixels touch only
\* diagonally and across the end of a row, so that the figure is 1.
C6_Witness ==
    /\ scan_out.status = "success"
    /\ colors = DefaultColors
    /\ image.px = <<<<Red, White>>, <<White, Red>>>>
    /\ scan_out.result["white"] = 1
    /\ scan_out.result["black"] = 0

(***************************************************************************)
(* scan_directory (src/pixel_detector.py, lines 137-224).                  *)
(***************************************************************************)
\* At most this many PNG files are under the directory.
MaxFiles == 3

\* The contents a PNG file may have: undecodable, or one row of two pixels.
ScanImages == {Corrupt,
               Decoded(<<<<White, White>>>>), Decoded(<<<<Black, Black>>>>),
               Decoded(<<<<White, Black>>>>), Decoded(<<<<Red, Red>>>>)}

Thresholds == {1, 2}

\* What the user answers to get_user_decision (lines 125-133).
Decisions == {"Keep", "Delete", "Skip"}

\* File 0 is not a PNG; files 1..n are.
NotPng == 0
Directories ==
    UNION {{[f \in 0..n |-> IF f = NotPng THEN [png |-> FALSE, img |-> Corrupt]
                                           ELSE [png |-> TRUE, img |-> imgs[f]]] :
               imgs \in [1..n -> ScanImages]} : n \in 0..MaxFiles}

\* dict.get(key, default)
Get(d, k, default) == IF k \in DOMAIN d THEN d[k] ELSE default

\* The dict check_consecutive_pixels builds over all its colors (lines 34-63).
ResultDict(img, cols) ==
    [name \in {ColorName(cols[k]) : k \in DOMAIN cols} |->
        LET k == CHOOSE j \in DOMAIN cols :
                    /\ ColorName(cols[j]) = name
                    /\ \A m \in DOMAIN cols : ColorName(cols[m]) = name => m <= j
        IN  MaxConsecutive(Rgb(img.px), cols[k])]

\* Mutant of ErrorOutcome: the handler reports the failure as a success
\* without figures.
ErrorOutcomeAsSuccess(f) == [file |-> f, status |-> "success", result |-> EmptyDict]

\* Lines 71-76.
ErrorOutcome(f) == [file |-> f, status |-> "error"]

\* check_consecutive_pixels as called by process_file: default colors.
CheckConsecutivePixels(f) ==
    IF directory[f].img.ok
      THEN [file |-> f, status |-> "success",
            result |-> ResultDict(directory[f].img, DefaultColors)]
      ELSE ErrorOutcome(f)

\* Lines 78-82.
NoResult == [status |-> "none"]
ProcessFile(f) == IF directory[f].png THEN CheckConsecutivePixels(f) ELSE NoResult

\* Mutant of DetectionHit: a run equal to the threshold does not count.
DetectionHitStrict(r) ==
    /\ r.status = "success"
    /\ \/ Get(r.result, "white", 0) > threshold
       \/ Get(r.result, "black", 0) > threshold

\* Lines 181-187.
DetectionHit(r) ==
    /\ r.status = "success"
    /\ \/ Get(r.result, "white", 0) >= threshold
       \/ Get(r.result, "black", 0) >= threshold

\* Mutant of Collected: the detection block is indented under the progress
\* condition of line 178, so a result is kept only when progress is printed.
CollectedUnderProgress(r) ==
    IF /\ ((completed + 1) % 100 = 0 \/ completed + 1 = Cardinality(all_files))
       /\ r.status = "success"
       /\ \/ Get(r.result, "white", 0) >= threshold
          \/ Get(r.result, "black", 0) >= threshold
      THEN Append(results, r) ELSE results

\* Line 188, under the conditions of lines 181-187.
Collected(r) == IF DetectionHit(r) THEN Append(results, r) ELSE results

\* Lines 151-157.
CollectFiles ==
    /\ spc = "collect"
    /\ all_files' = {f \in DOMAIN directory : directory[f].png}
    /\ pending' = all_files'
    /\ spc' = "pool"
    /\ UNCHANGED <<directory, threshold, auto_delete, completed, yielded, results, ri,
                   detected_images, deleted_images, fs, last_review>>
    /\ UNCHANGED <<missVars, pixVars>>

\* One iteration of "for result in pool.imap_unordered(...)" (lines 176-188):
\* the pool yields the result of any file not yet yielded.
PoolYield(f) ==
    /\ spc = "pool"
    /\ f \in pending
    /\ pending' = pending \ {f}
    /\ completed' = completed + 1
    /\ yielded' = yielded \cup {ProcessFile(f)}
    /\ results' = Collected(ProcessFile(f))
    /\ UNCHANGED <<spc, directory, threshold, auto_delete, all_files, ri,
                   detected_images, deleted_images, fs, last_review>>
    /\ UNCHANGED <<missVars, pixVars>>

Pool == \E f \in pending : PoolYield(f)

\* Lines 190-192: the pool is exhausted.
StartReview ==
    /\ spc = "pool"
    /\ pending = {}
    /\ spc' = "review"
    /\ ri' = 1
    /\ detected_images' = << >>
    /\ deleted_images' = << >>
    /\ UNCHANGED <<directory, threshold, auto_delete, all_files, pending, completed,
                   yielded, results, fs, last_review>>
    /\ UNCHANGED <<missVars, pixVars>>

\* Mutant of GetUserDecision: "s" is answered like "n".
GetUserDecisionSkipDeletes(decision) == decision \in {"Delete", "Skip"}

\* get_user_decision (lines 114-135): True for "n", False for "y" and "s".
GetUserDecision(decision) == decision = "Delete"

\* Mutant of DeleteFileReturns: the except branch returns True as well.
DeleteFileAlwaysTrue(remove_ok) == TRUE

\* delete_file (lines 99-112): what it returns, given whether os.remove
\* succeeded.
DeleteFileReturns(remove_ok) == remove_ok

\* One iteration of "for result in results" (lines 194-219). preview_ok: the
\* viewer could be started (asked for only without auto_delete); decision:
\* the answer get_user_decision finally accepts, "none" when it is not
\* called; remove_ok: os.remove succeeded.
ReviewStep(preview_ok, decision, remove_ok) ==
    LET r         == results[ri]
        f         == r.file
        previewed == ~auto_delete /\ preview_ok
        asked     == previewed
        attempted == auto_delete \/ (asked /\ GetUserDecision(decision))
    IN  /\ spc = "review"
        /\ ri <= Len(results)
        /\ detected_images' = Append(detected_images, [file |-> f, result |-> r.result])
        /\ fs' = IF attempted /\ remove_ok THEN fs \ {f} ELSE fs
        /\ deleted_images' = IF attempted /\ DeleteFileReturns(remove_ok)
                               THEN Append(deleted_images, f) ELSE deleted_images
        /\ last_review' = [file |-> f,
                           previewed |-> previewed,
                           asked |-> IF asked THEN 1 ELSE 0,
                           decision |-> decision,
                           attempted |-> attempted]
        /\ ri' = ri + 1
        /\ UNCHANGED <<spc, directory, threshold, auto_delete, all_files, pending,
                       completed, yielded, results>>
        /\ UNCHANGED <<missVars, pixVars>>

\* The viewer is started only without auto_delete (line 214), the user is
\* asked only when it started (line 217), and os.remove runs only in
\* auto_delete mode or on the answer "n" (lines 210 and 218).
Review ==
    \E preview_ok \in (IF auto_delete THEN {FALSE} ELSE BOOLEAN) :
       \E decision \in (IF preview_ok THEN Decisions ELSE {"none"}) :
          \E remove_ok \in (IF auto_delete \/ GetUserDecision(decision)
                              THEN BOOLEAN ELSE {FALSE}) :
             ReviewStep(preview_ok, decision, remove_ok)

\* Lines 221-224.
ReturnSummary ==
    /\ spc = "review"
    /\ ri > Len(results)
    /\ spc' = "done"
    /\ UNCHANGED <<directory, threshold, auto_delete, all_files, pending, completed,
                   yielded, results, ri, detected_images, deleted_images, fs, last_review>>
    /\ UNCHANGED <<missVars, pixVars>>

InitScan ==
    /\ IdleMissing /\ IdlePixels
    /\ spc = "collect"
    /\ directory \in Directories
    /\ threshold \in Thresholds
    /\ auto_delete \in BOOLEAN
    /\ all_files = {} /\ pending = {} /\ completed = 0 /\ yielded = {}
    /\ results = << >> /\ ri = 1
    /\ detected_images = << >> /\ deleted_images = << >>
    /\ fs = DOMAIN directory
    /\ last_review = [file |-> -1]

NextScan == CollectFiles \/ Pool \/ StartReview \/ Review \/ ReturnSummary

SpecScan == InitScan /\ [][NextScan]_vars

(***************************************************************************)
(* Properties of scan_directory.                                           *)
(***************************************************************************)
FilesOf(seq) == {seq[i].file : i \in DOMAIN seq}
NoDuplicates(seq) == \A i, j \in DOMAIN seq : seq[i] = seq[j] => i = j
DetectedFiles == FilesOf(detected_images)

\* The combined row/column figure of a decoded image for one color.
Figure(px, color) == Max(BestOf(RowLines(px), color), BestOf(ColLines(px), color))

Undecodable == {f \in all_files : ~directory[f].img.ok}
PoolDone == spc \in {"review", "done"}

C5_DetectedSetIndependentOfOrder ==
    spc = "done" =>
        LET expected == {f \in all_files : DetectionHit(ProcessFile(f))}
        IN  /\ FilesOf(results) = expected
            /\ DetectedFiles = expected
            /\ NoDuplicates(results)
            /\ \A i, j \in DOMAIN detected_images :
                  detected_images[i].file = detected_images[j].file => i = j

\* C5 witness: two detected files whose results arrived in the opposite of
\* the input order.
C5_Witness ==
    /\ spc = "done"
    /\ Len(detected_images) >= 2
    /\ detected_images[1].file > detected_images[2].file

\* C7: a scanned file is in the detected list iff its scan succeeded and the
\* figure of white or of black is at least the threshold.
C7_DetectedIffRunMeetsThreshold ==
    spc = "done" =>
        /\ DetectedFiles \subseteq all_files
        /\ \A f \in all_files :
              f \in DetectedFiles <=>
                 /\ directory[f].img.ok
                 /\ \E c \in {White, Black} : Figure(directory[f].img.px, c) >= threshold

\* C7 witness: a file whose largest figure equals the threshold is detected
\* and a decoded file whose figures are all below it is not.
C7_Witness ==
    /\ spc = "done"
    /\ \E f \in DetectedFiles :
          /\ Figure(directory[f].img.px, White) <= threshold
          /\ Figure(directory[f].img.px, Black) = threshold
    /\ \E f \in all_files \ DetectedFiles :
          /\ directory[f].img.ok
          /\ Figure(directory[f].img.px, White) = threshold - 1

Reviewed == last_review.file # -1

\* C9 as stated: without auto-delete the decision is asked exactly once for
\* every detected file, and the file is deleted iff the decision is Delete.
C9_AskedOnceAndDeletedIffDelete ==
    (~auto_delete /\ Reviewed) =>
        /\ last_review.asked = 1
        /\ last_review.file \notin fs <=> last_review.decision = "Delete"

\* C9 amended: without auto-delete the decision is asked exactly once for
\* every detected file whose preview opened and not at all for the others;
\* a removal is attempted iff the decision returned is Delete, so the file
\* is deleted only if the decision is Delete; Keep and Skip, and a file
\* never asked about, leave the file untouched. Every detected file is
\* reviewed.
C9_AskedOncePerPreviewedFile ==
    /\ (~auto_delete /\ Reviewed) =>
          /\ last_review.asked = (IF last_review.previewed THEN 1 ELSE 0)
          /\ last_review.attempted <=> last_review.decision = "Delete"
          /\ last_review.file \notin fs => last_review.decision = "Delete"
          /\ last_review.decision \in {"Keep", "Skip", "none"} =>
                /\ last_review.file \in fs
                /\ last_review.file \notin Range(deleted_images)
    /\ spc = "done" => Len(detected_images) = Len(results)

\* C9 witness: the user was asked about a previewed file, answered Skip and
\* the file is still on disk, after an earlier file was deleted on Delete.
C9_Witness ==
    /\ ~auto_delete
    /\ Reviewed
    /\ last_review.asked = 1
    /\ last_review.decision = "Skip"
    /\ last_review.file \in fs
    /\ Len(deleted_images) = 1

\* C10: the deleted list is exactly the set of detected files whose removal
\* succeeded: every deleted path is detected, no other file leaves the disk,
\* a failed removal adds nothing and the remaining detected files are still
\* processed.
C10_DeletedAreTheDetectedFilesRemoved ==
    /\ Range(deleted_images) = (DOMAIN directory) \ fs
    /\ Range(deleted_images) \subseteq DetectedFiles
    /\ \A i, j \in DOMAIN deleted_images : deleted_images[i] = deleted_images[j] => i = j
    /\ spc = "done" => DetectedFiles = FilesOf(results)

\* C10 witness: in auto-delete mode the first removal failed, the second
\* detected file was still processed and removed.
C10_Witness ==
    /\ spc = "done"
    /\ auto_delete
    /\ Len(detected_images) = 2
    /\ detected_images[1].file \in fs
    /\ deleted_images = <<detected_images[2].file>>

====
